---- MODULE Spec2Model ----
(***************************************************************************)
(* Theme state management of the blog: the inline head script that         *)
(* resolves and applies the theme before first paint, the storage event    *)
(* listener that synchronises open tabs, and the DarkModeToggle component  *)
(* (getCurrentTheme, updateIcons, click handler), as documented in         *)
(* src/content/blog/dark-mode-implementation.md and                        *)
(* src/content/blog/astro-blog-guide.md.                                   *)
(*                                                                         *)
(* Two views (tabs) of the same origin share one localStorage and one OS   *)
(* colour-scheme signal.  Each handler runs to completion as one step of   *)
(* the view's event loop; storage events are queued per view and delivered *)
(* asynchronously.                                                         *)
(***************************************************************************)
EXTENDS Naturals, Sequences, FiniteSets

\* Largest number of storage events waiting for delivery at one view.
MaxPending == 2

\* Largest number of posts in the blog collection, and the latest publication
\* date (dates are days 1..MaxDate).
MaxPosts == 3
MaxDate == 3

View == {"A", "B"}

\* JavaScript null (getItem of an absent key, StorageEvent.newValue of a removal).
Null == "<null>"
\* An uncaught exception leaving the function.
Throws == "<throws>"

Themes == {"dark", "light"}

\* Strings the 'theme' key may hold when a page is opened: the two themes the
\* toggle writes, the empty string and a string that is no theme.
StoreStrings == {"dark", "light", "", "auto"}

\* How localStorage behaves in the browser the views run in:
\*   ok        reads and writes succeed
\*   quota     reads succeed, setItem throws (quota exceeded)
\*   denied    any access to localStorage throws (storage blocked)
\*   undefined the global localStorage does not exist
StorageModes == {"ok", "quota", "denied", "undefined"}

VARIABLES
  storage,    \* the localStorage behaviour, fixed for a run
  store,      \* value held under key 'theme', Null when the key is absent
  osDark,     \* matchMedia('(prefers-color-scheme: dark)').matches
  phase,      \* per view: "loading", "head", "painted", "ready"
  listeners,  \* per view: the event listeners registered so far
  marker,     \* per view: documentElement.classList contains 'dark'
  icons,      \* per view: [sunHidden, moonHidden], class 'hidden' of each icon
  iconArg,    \* per view: argument of the last updateIcons call, Null if none
  inbox,      \* per view: storage events queued for the view, oldest first
  threw,      \* per view: the last script or handler ended by an uncaught exception
  lastAct,    \* per view: last code that set the marker: none/load/toggle/storage
  fresh,      \* views whose head script ran with no toggle, OS change or delivery since
  firstPaint, \* per view: what the first paint of the current document showed,
              \* kept until the component script runs
  toggleLog,  \* the last two runs of the click handler since the key was last
              \* removed from outside, oldest first
  collection, \* the blog collection: front matter of each post, in directory order
  feed        \* the RSS feed GET built: [built, items]

themeVars == <<storage, store, osDark, phase, listeners, marker, icons, iconArg,
               inbox, threw, lastAct, fresh, firstPaint, toggleLog>>

vars == <<storage, store, osDark, phase, listeners, marker, icons, iconArg,
          inbox, threw, lastAct, fresh, firstPaint, toggleLog, collection, feed>>

----------------------------------------------------------------------------
\* JavaScript helpers

\* Truthiness of a value read from the store: null and '' are falsy.
Truthy(x) == x # Null /\ x # ""

\* window.matchMedia('(prefers-color-scheme: dark)').matches ? 'dark' : 'light'
matchMedia(os) == IF os THEN "dark" ELSE "light"

\* localStorage.getItem('theme')
getItem(mode, s) == IF mode \in {"denied", "undefined"} THEN Throws ELSE s

\* A resolver that forgets the store and asks the OS only.
getThemePreferenceOsOnly(mode, s, os) == matchMedia(os)

\* getThemePreference of the inline head script (dark-mode-implementation.md).
\* Evaluating `typeof localStorage` runs the window getter, which throws when
\* storage is blocked; there is no try/catch.
getThemePreference(mode, s, os) ==
  IF mode = "denied" THEN Throws
  ELSE IF mode # "undefined" /\ Truthy(s) THEN s
  ELSE matchMedia(os)

\* getThemePreference as printed in astro-blog-guide.md: returns getItem's
\* result whenever localStorage is defined, null included.
getThemePreferenceGuide(mode, s, os) ==
  IF mode = "denied" THEN Throws
  ELSE IF mode # "undefined" THEN s
  ELSE matchMedia(os)

\* getCurrentTheme of the toggle component: no typeof guard.
getCurrentTheme(mode, s, os) ==
  IF getItem(mode, s) = Throws THEN Throws
  ELSE IF Truthy(s) THEN s
  ELSE matchMedia(os)

\* const isDark = <theme> === 'dark'; classList[isDark ? 'add' : 'remove']('dark')
applyThemeInverted(theme) == theme = "light"

applyTheme(theme) == theme = "dark"

\* classList.toggle('dark') in place of add: a second call removes the class.
classListFlip(has, isDark) == IF isDark THEN ~has ELSE FALSE

\* document.documentElement.classList[isDark ? 'add' : 'remove']('dark'), from
\* a root element that has the class or not: add leaves a present class
\* present, remove leaves an absent class absent.
classListApply(has, isDark) == IF isDark THEN (has \/ TRUE) ELSE (has /\ FALSE)

\* The storage listener's const isDark = e.newValue === 'dark'
listenerIsDarkFromKey(e) == e.key = "dark"

listenerIsDark(e) == e.newValue = "dark"

\* currentTheme === 'dark' ? 'light' : 'dark'
newThemeSameWhenLight(currentTheme) == IF currentTheme = "light" THEN "light" ELSE "dark"

newThemeOf(currentTheme) == IF currentTheme = "dark" THEN "light" ELSE "dark"

\* updateIcons(theme): the hidden class of the two icons afterwards.
updateIcons(theme) ==
  IF theme = "dark"
    THEN [sunHidden |-> TRUE, moonHidden |-> FALSE]
    ELSE [sunHidden |-> FALSE, moonHidden |-> TRUE]

\* Both icons carry class="hidden" in the markup.
MarkupIcons == [sunHidden |-> TRUE, moonHidden |-> TRUE]

\* localStorage.setItem throws in this mode.
setItemThrows(mode) == mode # "ok"

NoPaint == [painted |-> FALSE]

----------------------------------------------------------------------------
\* The RSS feed (src/pages/rss.xml.ts) over the blog collection
\* (src/content/config.ts)

\* Front matter of a post: its pubDate and its draft field, which may be
\* missing.
FrontMatter == [pubDate : 1..MaxDate, draft : {"true", "false", Null}]

\* draft: z.boolean().default(false)
draftOf(raw) == raw = "true"

\* The entries of the collection as the schema parses them; the slug of a post
\* is its place in the content directory.
entriesOf(c) ==
  [i \in 1..Len(c) |->
     [slug |-> i, data |-> [pubDate |-> c[i].pubDate, draft |-> draftOf(c[i].draft)]]]

\* ({ data }) => !data.draft
notDraft(entry) == ~entry.data.draft

\* getCollection('blog', filter): the entries the filter keeps, in the order
\* of the collection.
getCollection(c) == SelectSeq(entriesOf(c), notDraft)

\* blog.map((post) => ({ pubDate: post.data.pubDate, link: .../blog/${post.slug}/ }))
itemsOf(blog) ==
  [k \in 1..Len(blog) |-> [pubDate |-> blog[k].data.pubDate, link |-> blog[k].slug]]

NoFeed == [built |-> FALSE, items |-> <<>>]

\* All collections of at most n posts.
Collections(n) == UNION {[1..k -> FrontMatter] : k \in 0..n}

----------------------------------------------------------------------------
Init ==
  /\ storage \in StorageModes
  /\ store \in (IF storage \in {"ok", "quota"} THEN {Null} \cup StoreStrings ELSE {Null})
  /\ osDark \in BOOLEAN
  /\ phase = [v \in View |-> "loading"]
  /\ listeners = [v \in View |-> {}]
  /\ marker = [v \in View |-> FALSE]
  /\ icons = [v \in View |-> MarkupIcons]
  /\ iconArg = [v \in View |-> Null]
  /\ inbox = [v \in View |-> <<>>]
  /\ threw = [v \in View |-> FALSE]
  /\ lastAct = [v \in View |-> "none"]
  /\ fresh = {}
  /\ firstPaint = [v \in View |-> NoPaint]
  /\ toggleLog = <<>>
  /\ collection = <<>>
  /\ feed = NoFeed

\* The user opens or reloads the page in view v: a new document, no class on
\* the root element, no listeners, and the old document's pending events gone.
Reload(v) ==
  /\ phase[v] # "loading"
  /\ phase' = [phase EXCEPT ![v] = "loading"]
  /\ listeners' = [listeners EXCEPT ![v] = {}]
  /\ marker' = [marker EXCEPT ![v] = FALSE]
  /\ icons' = [icons EXCEPT ![v] = MarkupIcons]
  /\ iconArg' = [iconArg EXCEPT ![v] = Null]
  /\ inbox' = [inbox EXCEPT ![v] = <<>>]
  /\ threw' = [threw EXCEPT ![v] = FALSE]
  /\ lastAct' = [lastAct EXCEPT ![v] = "none"]
  /\ fresh' = fresh \ {v}
  /\ firstPaint' = [firstPaint EXCEPT ![v] = NoPaint]
  /\ UNCHANGED <<collection, feed, storage, store, osDark, toggleLog>>

\* A head script that also saves the theme it resolved.
HeadScriptPersists(v) ==
  /\ phase[v] = "loading"
  /\ phase' = [phase EXCEPT ![v] = "head"]
  /\ LET theme == getThemePreference(storage, store, osDark) IN
       IF theme = Throws
         THEN /\ threw' = [threw EXCEPT ![v] = TRUE]
              /\ UNCHANGED <<marker, listeners, store>>
         ELSE /\ threw' = [threw EXCEPT ![v] = setItemThrows(storage)]
              /\ marker' = [marker EXCEPT ![v] = classListApply(@, applyTheme(theme))]
              /\ listeners' = [listeners EXCEPT ![v] = @ \cup {"storage"}]
              /\ store' = IF setItemThrows(storage) THEN store ELSE theme
  /\ lastAct' = [lastAct EXCEPT ![v] = "load"]
  /\ fresh' = fresh \cup {v}
  /\ UNCHANGED <<collection, feed, storage, osDark, icons, iconArg, inbox, firstPaint, toggleLog>>

\* The inline script in <head>: resolve the theme, apply it, then register the
\* storage listener.  An exception in getThemePreference ends the script there.
HeadScript(v) ==
  /\ phase[v] = "loading"
  /\ phase' = [phase EXCEPT ![v] = "head"]
  /\ LET theme == getThemePreference(storage, store, osDark) IN
       IF theme = Throws
         THEN /\ threw' = [threw EXCEPT ![v] = TRUE]
              /\ UNCHANGED <<marker, listeners>>
         ELSE /\ threw' = [threw EXCEPT ![v] = FALSE]
              /\ marker' = [marker EXCEPT ![v] = classListApply(@, applyTheme(theme))]
              /\ listeners' = [listeners EXCEPT ![v] = @ \cup {"storage"}]
  /\ lastAct' = [lastAct EXCEPT ![v] = "load"]
  /\ fresh' = fresh \cup {v}
  /\ UNCHANGED <<collection, feed, storage, store, osDark, icons, iconArg, inbox, firstPaint, toggleLog>>

\* A head script that is deferred lets the paint come first.
PaintBeforeScript(v) == phase[v] \in {"loading", "head"}

\* The browser paints the document for the first time; the head script is
\* parser-blocking, so it has finished by then.
PaintReady(v) == phase[v] = "head"

FirstPaint(v) ==
  /\ PaintReady(v)
  /\ phase' = [phase EXCEPT ![v] = "painted"]
  /\ firstPaint' = [firstPaint EXCEPT ![v] =
        [painted |-> TRUE,
         inited  |-> phase[v] = "head",
         fresh   |-> v \in fresh,
         marker  |-> marker[v],
         isDark  |-> getThemePreference(storage, store, osDark) = "dark"]]
  /\ UNCHANGED <<collection, feed, storage, store, osDark, listeners, marker, icons, iconArg,
                 inbox, threw, lastAct, fresh, toggleLog>>

\* The component script of DarkModeToggle: initialise the icons, then register
\* the click handler.  An exception in getCurrentTheme ends the script before
\* addEventListener.
ComponentScript(v) ==
  /\ phase[v] = "painted"
  /\ phase' = [phase EXCEPT ![v] = "ready"]
  /\ LET theme == getCurrentTheme(storage, store, osDark) IN
       IF theme = Throws
         THEN /\ threw' = [threw EXCEPT ![v] = TRUE]
              /\ UNCHANGED <<icons, iconArg, listeners>>
         ELSE /\ threw' = [threw EXCEPT ![v] = FALSE]
              /\ icons' = [icons EXCEPT ![v] = updateIcons(theme)]
              /\ iconArg' = [iconArg EXCEPT ![v] = theme]
              /\ listeners' = [listeners EXCEPT ![v] = @ \cup {"click"}]
  /\ firstPaint' = [firstPaint EXCEPT ![v] = NoPaint]
  /\ UNCHANGED <<collection, feed, storage, store, osDark, marker, inbox, lastAct, fresh,
                 toggleLog>>

\* The last two entries of the click log with e appended.
Logged(log, e) ==
  IF Len(log) < 2 THEN Append(log, e) ELSE <<log[2], e>>

\* The storage event a write of value new to key 'theme' raises in every other
\* view (the fields the listener reads).
StorageEventOf(new) == [key |-> "theme", newValue |-> new]

\* The click handler of #theme-toggle in view v.
Toggle(v) ==
  /\ "click" \in listeners[v]
  /\ \A w \in View \ {v} : Len(inbox[w]) < MaxPending
  /\ LET currentTheme == getCurrentTheme(storage, store, osDark)
         newTheme == newThemeOf(currentTheme)
         entry == [view |-> v, from |-> currentTheme, to |-> newTheme,
                   completed |-> ~setItemThrows(storage)]
     IN
       IF currentTheme = Throws
         THEN /\ threw' = [threw EXCEPT ![v] = TRUE]
              /\ UNCHANGED <<store, marker, icons, iconArg, inbox, lastAct,
                             fresh, toggleLog>>
         ELSE /\ marker' = [marker EXCEPT ![v] = classListApply(@, applyTheme(newTheme))]
              /\ lastAct' = [lastAct EXCEPT ![v] = "toggle"]
              /\ fresh' = {}
              /\ toggleLog' = Logged(toggleLog, entry)
              /\ IF setItemThrows(storage)
                   THEN /\ threw' = [threw EXCEPT ![v] = TRUE]
                        /\ UNCHANGED <<store, icons, iconArg, inbox>>
                   ELSE /\ threw' = [threw EXCEPT ![v] = FALSE]
                        /\ store' = newTheme
                        /\ inbox' = [w \in View |->
                              IF w # v /\ newTheme # store
                                THEN Append(inbox[w], StorageEventOf(newTheme))
                                ELSE inbox[w]]
                        /\ icons' = [icons EXCEPT ![v] = updateIcons(newTheme)]
                        /\ iconArg' = [iconArg EXCEPT ![v] = newTheme]
  /\ UNCHANGED <<collection, feed, storage, osDark, phase, listeners, firstPaint>>

\* window.addEventListener('storage', (e) => {...}) called with event e in
\* view v.  With no listener registered the event is lost.
dispatchStorage(v, e) ==
  IF "storage" \in listeners[v]
    THEN /\ threw' = [threw EXCEPT ![v] = FALSE]
         /\ IF e.key = "theme"
              THEN /\ marker' = [marker EXCEPT ![v] = classListApply(@, listenerIsDark(e))]
                   /\ lastAct' = [lastAct EXCEPT ![v] = "storage"]
                   /\ fresh' = fresh \ {v}
              ELSE UNCHANGED <<marker, lastAct, fresh>>
    ELSE UNCHANGED <<marker, lastAct, fresh, threw>>

\* The event loop of view v dispatches the oldest queued storage event of key
\* 'theme'.
StorageListener(v) ==
  /\ inbox[v] # <<>>
  /\ inbox' = [inbox EXCEPT ![v] = Tail(@)]
  /\ dispatchStorage(v, Head(inbox[v]))
  /\ UNCHANGED <<collection, feed, storage, store, osDark, phase, listeners, icons, iconArg,
                 firstPaint, toggleLog>>

\* A storage event of another key of the origin reaches view v.  Such events
\* change nothing the views read, so they are dispatched without queueing.
OtherKeyEvent == [key |-> "other", newValue |-> "x"]

OtherKeyStorage(v) ==
  /\ storage \in {"ok", "quota"}
  /\ "storage" \in listeners[v]
  /\ dispatchStorage(v, OtherKeyEvent)
  /\ UNCHANGED <<collection, feed, storage, store, osDark, phase, listeners, icons, iconArg,
                 inbox, firstPaint, toggleLog>>

\* The key 'theme' is removed from outside the component (site data cleared,
\* developer tools): every view is sent a storage event with newValue null.
RemoveKey ==
  /\ storage \in {"ok", "quota"}
  /\ store # Null
  /\ \A w \in View : Len(inbox[w]) < MaxPending
  /\ store' = Null
  /\ inbox' = [w \in View |-> Append(inbox[w], StorageEventOf(Null))]
  /\ fresh' = {}
  /\ toggleLog' = <<>>
  /\ UNCHANGED <<collection, feed, storage, osDark, phase, listeners, marker, icons,
                 iconArg, threw, lastAct, firstPaint>>

\* The user switches the OS colour scheme; no view is notified.
OSChange ==
  /\ osDark' = ~osDark
  /\ fresh' = {}
  /\ UNCHANGED <<collection, feed, storage, store, phase, listeners, marker, icons, iconArg,
                 inbox, threw, lastAct, firstPaint, toggleLog>>

Next ==
  \/ \E v \in View : Reload(v)
  \/ \E v \in View : HeadScript(v)
  \/ \E v \in View : FirstPaint(v)
  \/ \E v \in View : ComponentScript(v)
  \/ \E v \in View : Toggle(v)
  \/ \E v \in View : StorageListener(v)
  \/ \E v \in View : OtherKeyStorage(v)
  \/ RemoveKey
  \/ OSChange

Spec == Init /\ [][Next]_vars

\* The views on their own: page loads, clicks, their storage events and the OS
\* signal, with nothing else of the origin touching localStorage.
NextOwn ==
  \/ \E v \in View : Reload(v)
  \/ \E v \in View : HeadScript(v)
  \/ \E v \in View : FirstPaint(v)
  \/ \E v \in View : ComponentScript(v)
  \/ \E v \in View : Toggle(v)
  \/ \E v \in View : StorageListener(v)
  \/ OSChange

SpecOwn == Init /\ [][NextOwn]_vars

----------------------------------------------------------------------------
\* The build of /rss.xml, for every collection of at most MaxPosts posts.

InitRss ==
  /\ storage = "ok"
  /\ store = Null
  /\ osDark = FALSE
  /\ phase = [v \in View |-> "loading"]
  /\ listeners = [v \in View |-> {}]
  /\ marker = [v \in View |-> FALSE]
  /\ icons = [v \in View |-> MarkupIcons]
  /\ iconArg = [v \in View |-> Null]
  /\ inbox = [v \in View |-> <<>>]
  /\ threw = [v \in View |-> FALSE]
  /\ lastAct = [v \in View |-> "none"]
  /\ fresh = {}
  /\ firstPaint = [v \in View |-> NoPaint]
  /\ toggleLog = <<>>
  /\ collection \in Collections(MaxPosts)
  /\ feed = NoFeed

\* export async function GET(context)
GET ==
  /\ ~feed.built
  /\ feed' = [built |-> TRUE, items |-> itemsOf(getCollection(collection))]
  /\ UNCHANGED <<collection, themeVars>>

NextRss == GET

SpecRss == InitRss /\ [][NextRss]_vars

----------------------------------------------------------------------------
\* What the three resolvers return in the current state.
Resolved == getThemePreference(storage, store, osDark)
ResolvedGuide == getThemePreferenceGuide(storage, store, osDark)
ResolvedToggle == getCurrentTheme(storage, store, osDark)

LastToggle == toggleLog[Len(toggleLog)]

Opposite(t) == IF t = "dark" THEN "light" ELSE "dark"

----------------------------------------------------------------------------
\* C1: resolveEffectiveTheme (getThemePreference in both printed forms, and
\* getCurrentTheme) returns exactly 'dark' or 'light' in every state: key
\* absent, key holding any string, store unavailable, either OS signal.
C1_AlwaysDarkOrLight ==
  /\ Resolved \in Themes
  /\ ResolvedGuide \in Themes
  /\ ResolvedToggle \in Themes

\* C2: with the store readable and holding nothing or a theme, the resolvers
\* return the persisted theme verbatim when there is one and the OS theme
\* otherwise (store empty and OS dark gives 'dark').
C2_PersistedElseOS ==
  (storage \in {"ok", "quota"} /\ store \in Themes \cup {Null}) =>
    LET expected == IF store \in Themes THEN store ELSE matchMedia(osDark) IN
      /\ Resolved = expected
      /\ ResolvedGuide = expected
      /\ ResolvedToggle = expected

\* C3: when reading the store throws, the resolvers let no exception out and
\* return the OS theme, no script of a view ends by an exception, and a view
\* whose head script has just run carries the marker of the OS theme.
C3_UnavailableStoreFallsBack ==
  storage = "denied" =>
    \A v \in View :
      phase[v] # "loading" =>
        /\ Resolved = matchMedia(osDark)
        /\ ResolvedToggle = matchMedia(osDark)
        /\ ~threw[v]
        /\ v \in fresh => marker[v] = osDark

C5_CrossTabConvergence ==
  \A a \in View : \A b \in View \ {a} :
    ( /\ toggleLog # <<>>
      /\ LastToggle.view = a
      /\ LastToggle.completed
      /\ lastAct[a] = "toggle"
      /\ lastAct[b] = "storage"
      /\ inbox[b] = <<>> )
    => marker[b] = marker[a]

C5_Witness ==
  /\ toggleLog # <<>>
  /\ LastToggle.view = "A"
  /\ LastToggle.completed
  /\ lastAct["A"] = "toggle"
  /\ lastAct["B"] = "storage"
  /\ inbox["B"] = <<>>
  /\ marker["A"] /\ marker["B"]

\* C6: with a working store, once a toggle has happened, every view listens
\* and no storage event is pending, all views carry the same marker and it is
\* the one of the value in the store.
C6_EventualConvergence ==
  ( /\ storage = "ok"
    /\ toggleLog # <<>>
    /\ \A v \in View : "storage" \in listeners[v] /\ inbox[v] = <<>> )
  => \A v \in View : marker[v] = (store = "dark")

C8_TogglePostcondition ==
  ( /\ toggleLog # <<>>
    /\ LastToggle.completed
    /\ LastToggle.from \in Themes
    /\ lastAct[LastToggle.view] = "toggle" )
  => /\ store = Opposite(LastToggle.from)
     /\ marker[LastToggle.view] = (Opposite(LastToggle.from) = "dark")
     /\ iconArg[LastToggle.view] = Opposite(LastToggle.from)

C8_Witness ==
  /\ toggleLog # <<>>
  /\ LastToggle.completed
  /\ LastToggle.from = "light"
  /\ lastAct[LastToggle.view] = "toggle"
  /\ store = "dark"
  /\ marker[LastToggle.view]
  /\ iconArg[LastToggle.view] = "dark"

C10_OnlyToggleWrites ==
  [][ ~RemoveKey =>
        /\ store' # store => \E v \in View : Toggle(v)
        /\ store # Null => store' # Null ]_vars

C10_Witness ==
  /\ store \in Themes
  /\ \E v \in View : lastAct[v] = "storage"
  /\ \E v \in View : lastAct[v] = "load" /\ firstPaint[v].painted

\* C11: when setItem throws, a run of the click handler still ends without an
\* exception, with the marker of the new theme applied and updateIcons called
\* with the new theme.
C11_ToggleSurvivesFailedWrite ==
  ( /\ setItemThrows(storage)
    /\ toggleLog # <<>>
    /\ lastAct[LastToggle.view] = "toggle" )
  => /\ ~threw[LastToggle.view]
     /\ marker[LastToggle.view] = (LastToggle.to = "dark")
     /\ iconArg[LastToggle.view] = LastToggle.to

\* C12: applying a theme to a root element that already went through the same
\* application changes nothing: for each theme and each view, applying it to
\* the current marker twice gives what applying it once gives, and a view whose
\* click handler ran last carries the marker of the theme that run applied,
\* however often the same theme was applied before.
C12_ApplyThemeIdempotent ==
  /\ \A v \in View : \A t \in Themes :
        classListApply(classListApply(marker[v], applyTheme(t)), applyTheme(t))
          = classListApply(marker[v], applyTheme(t))
  /\ (toggleLog # <<>> /\ lastAct[LastToggle.view] = "toggle") =>
        marker[LastToggle.view] = (LastToggle.to = "dark")

C12_Witness ==
  /\ Len(toggleLog) = 2
  /\ toggleLog[1].view = toggleLog[2].view
  /\ toggleLog[1].to = "dark" /\ toggleLog[2].to = "dark"
  /\ lastAct[LastToggle.view] = "toggle"
  /\ marker[LastToggle.view]

\* The publication dates of the feed's items, in feed order.
FeedDates == [k \in 1..Len(feed.items) |-> feed.items[k].pubDate]

\* Newest first, or oldest first.
SortedByDate(d) ==
  \/ \A i \in 1..Len(d) : \A j \in i..Len(d) : d[i] >= d[j]
  \/ \A i \in 1..Len(d) : \A j \in i..Len(d) : d[i] <= d[j]

\* C13: the feed GET builds lists its items sorted by publication date,
\* whatever the order of the collection, and holds no post whose draft flag is
\* true.
C13_FeedSortedWithoutDrafts ==
  feed.built =>
    /\ SortedByDate(FeedDates)
    /\ \A k \in 1..Len(feed.items) : collection[feed.items[k].link].draft # "true"

\* The half of C13 that the filter of GET provides: no draft in the feed, and
\* every post that is no draft in it.
FeedHoldsExactlyThePublished ==
  feed.built =>
    {feed.items[k].link : k \in 1..Len(feed.items)}
      = {i \in 1..Len(collection) : collection[i].draft # "true"}

\* The EffectiveTheme of a notified value: the value when it is a theme, the
\* OS theme when the key was removed.
EffectiveOf(newValue, os) == IF newValue \in Themes THEN newValue ELSE matchMedia(os)

\* C14: a storage event of key 'theme' dispatched to a listening view leaves
\* its marker present iff the EffectiveTheme of the notified value is 'dark'
\* (the OS theme for newValue null), which is what a fresh resolve returns
\* while the store still holds the notified value; an event of another key
\* leaves the marker as it was.
C14_ListenerAppliesEffectiveTheme ==
  [][ \A v \in View :
        /\ (StorageListener(v) /\ "storage" \in listeners[v]) =>
              LET e == Head(inbox[v]) IN
                /\ marker'[v] = (EffectiveOf(e.newValue, osDark) = "dark")
                /\ store' = e.newValue => marker'[v] = (Resolved' = "dark")
        /\ OtherKeyStorage(v) => marker'[v] = marker[v] ]_vars

\* Exactly one icon is shown, the sun for 'dark' and the moon for 'light'.
IconsShow(i, dark) ==
  /\ i.sunHidden # i.moonHidden
  /\ dark <=> ~i.sunHidden

\* C15: in every view whose component script has initialised the icons,
\* exactly one of the two icons is visible and it is the one of the theme the
\* marker shows: the sun with the marker present, the moon with it absent.
C15_IconMatchesMarker ==
  \A v \in View :
    "click" \in listeners[v] => IconsShow(icons[v], marker[v])

====
